---- MODULE Spec2Model ----
(***************************************************************************)
(* Model of src/DILIrank/fetch.py: the batch resolver that maps drug names *)
(* to ChEMBL identifiers, fetches structure and mechanism data and builds  *)
(* the metadata table and the target table.                                *)
(*                                                                         *)
(* Python strings are sequences of one-character strings, so that lower(), *)
(* strip(), split() and the substring test are computed, not assumed.      *)
(* Python's None is the one-element sequence None, whose element is not a  *)
(* character.                                                              *)
(***************************************************************************)
EXTENDS Integers, Sequences, FiniteSets, TLC

VARIABLES
  names,          \* line 123: the raw names, NaN dropped, duplicates dropped
  i,              \* position of the for loop in names
  pc,             \* position of the script
  name,           \* line 128: the stripped name being processed
  candidate,      \* line 133: <<>> for None, else <<record>>
  candidates,     \* lines 136/138
  ranked, k,      \* choose_best_candidate: the ranked list, the loop position
  fetched,        \* choose_best_candidate: how each pass of its loop ended
  chembl_id,      \* line 151
  meta_records,   \* line 124
  target_records, \* line 125
  resp,           \* what the most recent external call yielded
  log,            \* external calls and pauses since the current name began
  prev,           \* the last call or pause before the current name began
  saved           \* lines 189-190: both tables written

vars == <<names, i, pc, name, candidate, candidates, ranked, k, fetched,
          chembl_id, meta_records, target_records, resp, log, prev, saved>>

\* ------------------------------------------------------------ configuration
MAX_HITS == 5
DEEP_CHECK == 3

\* Bounds of the model: length of the input Name column, number of mechanism
\* rows the remote service holds for one molecule, length of a candidate list
\* given to the ranking function on its own.
MaxNames == 2
MaxMechs == 2
MaxCands == 3

\* ------------------------------------------------------------ Python values
None == <<"None">>

Min(a, b) == IF a < b THEN a ELSE b

NotNone(x) == x # None

\* x is truthy: neither None nor the empty string
Truthy(x) == x # None /\ x # <<>>

\* (x or '')
OrEmpty(x) == IF Truthy(x) THEN x ELSE <<>>

LowerChar(c) ==
  CASE c = "A" -> "a"
    [] c = "B" -> "b"
    [] c = "M" -> "m"
    [] c = "P" -> "p"
    [] c = "S" -> "s"
    [] OTHER -> c

\* str.lower()
Lower(s) == [j \in 1..Len(s) |-> LowerChar(s[j])]

RECURSIVE LStrip(_)
LStrip(s) == IF s = <<>> THEN s
             ELSE IF Head(s) = " " THEN LStrip(Tail(s)) ELSE s

RECURSIVE RStrip(_)
RStrip(s) == IF s = <<>> THEN s
             ELSE IF s[Len(s)] = " " THEN RStrip(SubSeq(s, 1, Len(s) - 1)) ELSE s

\* str.strip()
Strip(s) == RStrip(LStrip(s))

\* the Python test  sub in s  on strings
Contains(sub, s) ==
  \E j \in 0..(Len(s) - Len(sub)) : SubSeq(s, j + 1, j + Len(sub)) = sub

RECURSIVE Token(_)
Token(s) == IF s = <<>> \/ Head(s) = " " THEN <<>>
            ELSE <<Head(s)>> \o Token(Tail(s))

\* s.split()[0] for a string holding a non-blank character
SplitFirst(s) == Token(LStrip(s))

\* query_name.lower().strip()
Normalize(s) == Strip(Lower(s))

\* ------------------------------------------------------------ ranking
\* max_phase values of a candidate: absent (None), an int, a float (v counts
\* halves, so v = 5 is 2.5), a string holding an int literal (v is its value),
\* or any other string.
MpNone == [kind |-> "none", v |-> 0]
MpInt(n) == [kind |-> "int", v |-> n]
MpFloat(h) == [kind |-> "float", v |-> h]
MpIntStr(n) == [kind |-> "intstr", v |-> n]
MpText == [kind |-> "text", v |-> 0]

\* int(mp): ok is FALSE where Python raises
PyInt(mp) ==
  CASE mp.kind = "int" -> [ok |-> TRUE, v |-> mp.v]
    [] mp.kind = "float" -> [ok |-> TRUE,
                             v |-> IF mp.v >= 0 THEN mp.v \div 2
                                   ELSE -((-mp.v) \div 2)]
    [] mp.kind = "intstr" -> [ok |-> TRUE, v |-> mp.v]
    [] OTHER -> [ok |-> FALSE, v |-> 0]

\* lines 56-61: the max_phase part of the score
PhasePoints(mp) ==
  IF mp.kind = "none" THEN 0
  ELSE IF PyInt(mp).ok THEN PyInt(mp).v * 5 ELSE 0

ScoreExactOnly(c, query_name) ==
  LET pref == Strip(Lower(OrEmpty(c.pref_name)))
      q == Strip(Lower(query_name))
  IN (IF pref = q THEN 200 ELSE 0) + PhasePoints(c.max_phase)

\* score(c) in choose_best_candidate
Score(c, query_name) ==
  LET pref == Strip(Lower(OrEmpty(c.pref_name)))
      q == Strip(Lower(query_name))
  IN (IF pref = q THEN 200 ELSE 0)
     + (IF Contains(q, pref) \/ Contains(pref, q) THEN 20 ELSE 0)
     + PhasePoints(c.max_phase)

\* insert c behind every element whose score is at least c's
RECURSIVE InsertDesc(_, _, _)
InsertDesc(c, s, q) ==
  IF s = <<>> THEN <<c>>
  ELSE IF Score(Head(s), q) >= Score(c, q) THEN <<Head(s)>> \o InsertDesc(c, Tail(s), q)
  ELSE <<c>> \o s

RECURSIVE SortFrom(_, _, _)
SortFrom(done, rest, q) ==
  IF rest = <<>> THEN done
  ELSE SortFrom(InsertDesc(Head(rest), done, q), Tail(rest), q)

\* sorted(candidates, key=score, reverse=True): descending, stable
Ranked(cands, query_name) == SortFrom(<<>>, cands, query_name)

\* ------------------------------------------------------------ remote data
\* Strings that occur in the model.
sA == <<"a">>
sCapA == <<"A">>
sB == <<"b">>
sCapAB == <<"A", " ", "b">>
sPadCapAB == <<" ", "A", " ", "b">>
sPadCapA == <<"A", " ">>
sBlank == <<" ">>
Id1 == <<"C", "1">>
Id2 == <<"C", "2">>
SmilesC == <<"C", "C", "O">>
KeyK == <<"K">>
SmallMolecule == <<"s", "m", "a", "l", "l", " ", "m", "o", "l", "e", "c", "u", "l", "e">>
CapSmallMolecule == <<"S", "m", "a", "l", "l", " ", "m", "o", "l", "e", "c", "u", "l", "e">>
Protein == <<"P", "r", "o", "t", "e", "i", "n">>

\* a candidate, as the exact lookup and the search return it
Cand(pref, mp, id) == [pref_name |-> pref, max_phase |-> mp, molecule_chembl_id |-> id]

\* an entry of molecule_synonyms: a dict with the two keys, or a plain string
SynDict(syn, msyn) == [isdict |-> TRUE, synonyms |-> syn, molecule_synonym |-> msyn, text |-> None]
SynStr(t) == [isdict |-> FALSE, synonyms |-> None, molecule_synonym |-> None, text |-> t]

\* molecule_structures: absent (None) or a dict
NoStruct == [present |-> FALSE, canonical_smiles |-> None, standard_inchi_key |-> None]
Struct(smi, key) == [present |-> TRUE, canonical_smiles |-> smi, standard_inchi_key |-> key]

\* a full molecule record, as get-by-identifier returns it; has_syns is FALSE
\* where molecule_synonyms is None
Full(pref, has, syns, type, struct) ==
  [pref_name |-> pref, has_syns |-> has, molecule_synonyms |-> syns,
   molecule_type |-> type, molecule_structures |-> struct]

Mech(t, n, o, a, m) ==
  [target_chembl_id |-> t, target_pref_name |-> n, target_organism |-> o,
   action_type |-> a, mechanism_of_action |-> m]

\* Candidates of the main run.
cA == Cand(sCapA, MpInt(4), Id1)
cB == Cand(sB, MpNone, Id2)
cNoId == Cand(None, MpText, None)
cEmptyId == Cand(sCapAB, MpInt(1), <<>>)
CandPool == {cA, cB, cNoId, cEmptyId}

\* Result lists the free-text search can hold; the last one is longer than
\* MAX_HITS.
SearchLists ==
  { <<>>, <<cB>>, <<cB, cA>>, <<cNoId, cB>>, <<cEmptyId>>,
    <<cB, cB, cB, cA>>, <<cB, cA, cB, cB, cB, cA>> }

\* Records get-by-identifier can return.
fPref == Full(sCapAB, FALSE, <<>>, CapSmallMolecule, Struct(SmilesC, KeyK))
fSyn == Full(sB, TRUE, <<SynStr(sB), SynDict(None, sPadCapA)>>, SmallMolecule, Struct(<<>>, KeyK))
fProt == Full(None, TRUE, <<SynDict(sB, sA)>>, Protein, Struct(SmilesC, None))
fBare == Full(sB, TRUE, <<>>, SmallMolecule, NoStruct)
fNoType == Full(sB, FALSE, <<>>, None, Struct(None, None))
FullPool == {fPref, fSyn, fProt, fBare, fNoType}

m1 == Mech(Id1, sA, sB, sA, sB)
m2 == Mech(Id2, None, None, None, None)
MechList(n) == [j \in 1..n |-> IF j % 2 = 1 THEN m1 ELSE m2]

\* ------------------------------------------------------------ responses
\* What one external call yields: an exception before any row ("raise"), no
\* record ("none"), or rows, of which the first failAfter can be read before
\* the iteration raises (failAfter = -1: the iteration ends normally).
Raise == [kind |-> "raise", cands |-> <<>>, full |-> <<>>, mechs |-> <<>>, failAfter |-> 0]
NoRecord == [kind |-> "none", cands |-> <<>>, full |-> <<>>, mechs |-> <<>>, failAfter |-> -1]
CandRows(rows, f) == [kind |-> "rows", cands |-> rows, full |-> <<>>, mechs |-> <<>>, failAfter |-> f]
FullRecord(r) == [kind |-> "rows", cands |-> <<>>, full |-> <<r>>, mechs |-> <<>>, failAfter |-> -1]
MechRows(rows, f) == [kind |-> "rows", cands |-> <<>>, full |-> <<>>, mechs |-> rows, failAfter |-> f]
NoCall == [kind |-> "nocall", cands |-> <<>>, full |-> <<>>, mechs |-> <<>>, failAfter |-> -1]

\* the rows an iteration yields before it stops
Readable(rows, f) == IF f < 0 THEN rows ELSE SubSeq(rows, 1, Min(f, Len(rows)))

FailPoints(rows) == {-1} \cup (1..Len(rows))

ExactResponses ==
  {Raise, CandRows(<<>>, -1), CandRows(<<cB, cA>>, -1), CandRows(<<cA, cB>>, 1)}
  \cup {CandRows(<<c>>, -1) : c \in CandPool}
SearchResponses ==
  {Raise} \cup UNION {{CandRows(rows, f) : f \in FailPoints(rows)} : rows \in SearchLists}
GetResponses == {Raise, NoRecord} \cup {FullRecord(r) : r \in FullPool}
MechLists == {MechList(n) : n \in 0..MaxMechs}
MechResponses == {Raise} \cup UNION {{MechRows(rows, f) : f \in FailPoints(rows)} : rows \in MechLists}

\* ------------------------------------------------------------ helpers
\* pref_name_exact: the first row, None on no row or on an exception
pref_name_exact(r) ==
  LET rows == Readable(r.cands, r.failAfter)
  IN IF r.kind = "raise" \/ rows = <<>> THEN <<>> ELSE <<rows[1]>>

\* limited_text_search: the rows read before a failure, at most MAX_HITS
limited_text_search(r) ==
  LET rows == IF r.kind = "raise" THEN <<>> ELSE Readable(r.cands, r.failAfter)
  IN SubSeq(rows, 1, Min(MAX_HITS, Len(rows)))

\* lines 75-78: the string of one synonym entry
SynText(syn) ==
  IF syn.isdict
  THEN IF Truthy(syn.synonyms) THEN syn.synonyms
       ELSE IF Truthy(syn.molecule_synonym) THEN syn.molecule_synonym
       ELSE <<>>
  ELSE syn.text

\* lines 71-80: the name set of a full record
NameSet(full) ==
  LET syns == IF full.has_syns THEN full.molecule_synonyms ELSE <<>>
  IN {Strip(Lower(OrEmpty(full.pref_name)))}
     \cup {Strip(Lower(SynText(syns[j]))) : j \in {n \in DOMAIN syns : SynText(syns[n]) # <<>>}}

DeepMatchPrefOnly(full, query_name) ==
  Strip(Lower(OrEmpty(full.pref_name))) = Strip(Lower(query_name))

\* lines 81-83
DeepMatch(full, query_name) ==
  LET q == Strip(Lower(query_name))
      q_simplified == SplitFirst(q)
  IN q \in NameSet(full) \/ q_simplified \in NameSet(full)

\* ranked[:DEEP_CHECK]
DeepLimit(r) == Min(DEEP_CHECK, Len(r))

\* fetch_molecule_data on a get that raised or returned a record
fetch_molecule_data(r) ==
  IF r.kind = "raise"
  THEN [smiles |-> None, inchi_key |-> None, mol_type |-> None]
  ELSE LET mol == r.full[1]
           struct == IF mol.molecule_structures.present THEN mol.molecule_structures
                     ELSE NoStruct
       IN [smiles |-> struct.canonical_smiles,
           inchi_key |-> struct.standard_inchi_key,
           mol_type |-> mol.molecule_type]

IsSmallCaseSensitive(mol_type, smiles) ==
  Truthy(mol_type) /\ mol_type = SmallMolecule /\ Truthy(smiles)

\* line 165
IsSmall(mol_type, smiles) ==
  Truthy(mol_type) /\ Lower(mol_type) = SmallMolecule /\ Truthy(smiles)

FetchTargetsAlways(is_small) == TRUE

\* line 178: targets are fetched only for small molecules
FetchTargets(is_small) == is_small

TargetRow(cid, m) ==
  [molecule_chembl_id |-> cid,
   target_chembl_id |-> m.target_chembl_id,
   target_pref_name |-> m.target_pref_name,
   target_organism |-> m.target_organism,
   action_type |-> m.action_type,
   mechanism_of_action |-> m.mechanism_of_action]

\* fetch_targets: the rows appended before the iteration ended or raised
fetch_targets(cid, r) ==
  LET rows == IF r.kind = "raise" THEN <<>> ELSE Readable(r.mechs, r.failAfter)
  IN [j \in 1..Len(rows) |-> TargetRow(cid, rows[j])]

\* lines 181-183
WithQueryName(t, q) ==
  [molecule_chembl_id |-> t.molecule_chembl_id,
   target_chembl_id |-> t.target_chembl_id,
   target_pref_name |-> t.target_pref_name,
   target_organism |-> t.target_organism,
   action_type |-> t.action_type,
   mechanism_of_action |-> t.mechanism_of_action,
   query_name |-> q]

MetaRow(q, cid, smi, key, type, status) ==
  [query_name |-> q, chembl_id |-> cid, smiles |-> smi, inchi_key |-> key,
   molecule_type |-> type, status |-> status]

\* ------------------------------------------------------------ input
NaN == <<"NaN">>
RawNames == {NaN, sBlank, sCapAB, sPadCapAB}
Columns == UNION {[1..n -> RawNames] : n \in 0..MaxNames}

DropNa(col) == SelectSeq(col, LAMBDA x : x # NaN)

RECURSIVE UniqueFrom(_, _)
UniqueFrom(seen, rest) ==
  IF rest = <<>> THEN seen
  ELSE IF \E j \in DOMAIN seen : seen[j] = Head(rest)
       THEN UniqueFrom(seen, Tail(rest))
       ELSE UniqueFrom(Append(seen, Head(rest)), Tail(rest))

\* Series.unique(): first occurrences, in order
Unique(col) == UniqueFrom(<<>>, col)

\* ------------------------------------------------------------ the run
Init ==
  /\ names \in {Unique(DropNa(col)) : col \in Columns}
  /\ i = 1
  /\ pc = "loop"
  /\ name = <<>>
  /\ candidate = <<>>
  /\ candidates = <<>>
  /\ ranked = <<>>
  /\ k = 0
  /\ fetched = <<>>
  /\ chembl_id = None
  /\ meta_records = <<>>
  /\ target_records = <<>>
  /\ resp = NoCall
  /\ log = <<>>
  /\ prev = "none"
  /\ saved = FALSE

Last(s) == s[Len(s)]

\* line 135: a found record is used as the only candidate
UseExactNever(cand) == FALSE

UseExact(cand) == cand # <<>>

\* entry of choose_best_candidate up to its first external call (lines 46-65)
EnterChoose(cands) ==
  /\ ranked' = Ranked(cands, name')
  /\ k' = 1
  /\ fetched' = <<>>
  /\ pc' = "deep"

\* lines 127-130: the for loop takes the next raw name.  candidate,
\* candidates and chembl_id of the pass before are dead (each is assigned
\* before it is read), so the pass starts from their initial values.
NextName ==
  /\ pc = "loop"
  /\ i <= Len(names)
  /\ i' = i + 1
  /\ name' = Strip(names[i])
  /\ pc' = IF Strip(names[i]) = <<>> THEN "loop" ELSE "exact"
  /\ prev' = IF log = <<>> THEN prev ELSE Last(log)
  /\ log' = <<>>
  /\ resp' = NoCall
  /\ candidate' = <<>>
  /\ candidates' = <<>>
  /\ chembl_id' = None
  /\ UNCHANGED <<names, ranked, k, fetched, meta_records, target_records, saved>>

\* lines 133-136: the exact lookup and its pause
ExactLookup ==
  /\ pc = "exact"
  /\ \E r \in ExactResponses :
       /\ resp' = r
       /\ candidate' = pref_name_exact(r)
       /\ log' = log \o <<"exact", "sleep">>
       /\ IF UseExact(pref_name_exact(r))
          THEN /\ candidates' = pref_name_exact(r)
               /\ UNCHANGED name
               /\ EnterChoose(pref_name_exact(r))
          ELSE /\ pc' = "search"
               /\ UNCHANGED <<name, candidates, ranked, k, fetched>>
  /\ UNCHANGED <<names, i, chembl_id, meta_records, target_records, prev, saved>>

\* lines 138-151: the fallback search, then no_hit or the ranking
Search ==
  /\ pc = "search"
  /\ \E r \in SearchResponses :
       /\ resp' = r
       /\ candidates' = limited_text_search(r)
       /\ log' = Append(log, "search")
       /\ IF limited_text_search(r) = <<>>
          THEN /\ meta_records' = Append(meta_records,
                                         MetaRow(name, None, None, None, None, "no_hit"))
               /\ pc' = "loop"
               /\ UNCHANGED <<name, ranked, k, fetched>>
          ELSE /\ UNCHANGED <<name, meta_records>>
               /\ EnterChoose(limited_text_search(r))
  /\ UNCHANGED <<names, i, candidate, chembl_id, target_records, prev, saved>>

\* lines 65-86: one pass of the deep-verification loop
DeepGet ==
  /\ pc = "deep"
  /\ \E r \in GetResponses :
       /\ resp' = r
       /\ fetched' = Append(fetched, IF r.kind = "rows" /\ DeepMatch(r.full[1], name)
                                      THEN "return"
                                      ELSE IF r.kind = "rows" THEN "pause"
                                      ELSE IF r.kind = "raise" THEN "continue"
                                      ELSE "error")
       /\ CASE r.kind = "none" ->
                 \* full is None: full.get raises AttributeError outside the try
                 /\ log' = Append(log, "get")
                 /\ pc' = "aborted"
                 /\ UNCHANGED <<k, chembl_id>>
            [] r.kind = "raise" ->
                 \* continue: the pause of line 85 is skipped
                 /\ log' = Append(log, "get")
                 /\ IF k < DeepLimit(ranked)
                    THEN k' = k + 1 /\ UNCHANGED <<pc, chembl_id>>
                    ELSE /\ chembl_id' = ranked[1].molecule_chembl_id
                         /\ pc' = "chosen"
                         /\ UNCHANGED k
            [] OTHER ->
                 IF DeepMatch(r.full[1], name)
                 THEN /\ log' = Append(log, "get")
                      /\ chembl_id' = ranked[k].molecule_chembl_id
                      /\ pc' = "chosen"
                      /\ UNCHANGED k
                 ELSE /\ log' = log \o <<"get", "sleep">>
                      /\ IF k < DeepLimit(ranked)
                         THEN k' = k + 1 /\ UNCHANGED <<pc, chembl_id>>
                         ELSE /\ chembl_id' = ranked[1].molecule_chembl_id
                              /\ pc' = "chosen"
                              /\ UNCHANGED k
  /\ UNCHANGED <<names, i, name, candidate, candidates, ranked, meta_records,
                 target_records, prev, saved>>

\* lines 151-161: the result of choose_best_candidate is tested
CheckCandidate ==
  /\ pc = "chosen"
  /\ ranked' = <<>>
  /\ k' = 0
  /\ fetched' = <<>>
  /\ IF Truthy(chembl_id)
     THEN pc' = "struct" /\ UNCHANGED meta_records
     ELSE /\ meta_records' = Append(meta_records,
                                    MetaRow(name, None, None, None, None, "no_candidate"))
          /\ pc' = "loop"
  /\ UNCHANGED <<names, i, name, candidate, candidates, chembl_id,
                 target_records, resp, log, prev, saved>>

\* lines 163-178: the structure fetch, its pause, the metadata row
StructFetch ==
  /\ pc = "struct"
  /\ \E r \in GetResponses :
       /\ resp' = r
       /\ IF r.kind = "none"
          THEN \* mol is None: mol.get raises AttributeError outside the try
               /\ log' = Append(log, "struct")
               /\ pc' = "aborted"
               /\ UNCHANGED meta_records
          ELSE LET d == fetch_molecule_data(r)
                   is_small == IsSmall(d.mol_type, d.smiles)
               IN /\ log' = log \o <<"struct", "sleep">>
                  /\ meta_records' =
                       Append(meta_records,
                              MetaRow(name, chembl_id, d.smiles, d.inchi_key, d.mol_type,
                                      IF is_small THEN "ok" ELSE "non_small_or_no_smiles"))
                  /\ pc' = IF FetchTargets(is_small) THEN "mech" ELSE "loop"
  /\ UNCHANGED <<names, i, name, candidate, candidates, ranked, k, fetched,
                 chembl_id, target_records, prev, saved>>

\* lines 179-183: the mechanism fetch, its pause, the target rows
MechFetch ==
  /\ pc = "mech"
  /\ \E r \in MechResponses :
       /\ resp' = r
       /\ log' = log \o <<"mech", "sleep">>
       /\ target_records' =
            target_records \o
              [j \in 1..Len(fetch_targets(chembl_id, r)) |->
                 WithQueryName(fetch_targets(chembl_id, r)[j], name)]
  /\ pc' = "loop"
  /\ UNCHANGED <<names, i, name, candidate, candidates, ranked, k, fetched,
                 chembl_id, meta_records, prev, saved>>

\* lines 186-190: both tables are written
Save ==
  /\ pc = "loop"
  /\ i > Len(names)
  /\ saved' = TRUE
  /\ pc' = "done"
  /\ UNCHANGED <<names, i, name, candidate, candidates, ranked, k, fetched,
                 chembl_id, meta_records, target_records, resp, log, prev>>

Next ==
  \/ NextName
  \/ ExactLookup
  \/ Search
  \/ DeepGet
  \/ CheckCandidate
  \/ StructFetch
  \/ MechFetch
  \/ Save

Spec == Init /\ [][Next]_vars

\* ------------------------------------------------------------ ranking alone
\* choose_best_candidate's score and sort, applied to candidate lists and
\* query names drawn from pools.
RankPool ==
  { Cand(sCapAB, MpInt(4), Id1), Cand(sCapAB, MpInt(2), Id2),
    Cand(sPadCapA, MpFloat(5), Id1), Cand(None, MpText, Id2),
    Cand(sB, MpIntStr(4), Id2), Cand(sCapA, MpNone, Id1),
    Cand(sA, MpInt(0), Id2), Cand(sPadCapAB, MpInt(1), Id1) }
RankQueries == {sCapAB, sA, sB}
RankLists == UNION {[1..n -> RankPool] : n \in 0..MaxCands}

InitRank ==
  /\ candidates \in RankLists
  /\ name \in RankQueries
  /\ pc = "rank"
  /\ names = <<>>
  /\ i = 1
  /\ candidate = <<>>
  /\ ranked = <<>>
  /\ k = 0
  /\ fetched = <<>>
  /\ chembl_id = None
  /\ meta_records = <<>>
  /\ target_records = <<>>
  /\ resp = NoCall
  /\ log = <<>>
  /\ prev = "none"
  /\ saved = FALSE

\* lines 48-63
RankStep ==
  /\ pc = "rank"
  /\ ranked' = Ranked(candidates, name)
  /\ pc' = "ranked"
  /\ UNCHANGED <<names, i, name, candidate, candidates, k, fetched, chembl_id,
                 meta_records, target_records, resp, log, prev, saved>>

SpecRank == InitRank /\ [][RankStep]_vars

\* ------------------------------------------------------------ claims
Statuses == {"ok", "no_hit", "no_candidate", "non_small_or_no_smiles"}
IsCall(e) == e \in {"exact", "search", "get", "struct", "mech"}
Calls(l, e) == Cardinality({j \in DOMAIN l : l[j] = e})
RowsOf(q) == {j \in DOMAIN meta_records : meta_records[j].query_name = q}
QueryNames == {Strip(names[j]) : j \in DOMAIN names} \ {<<>>}
\* the pass for the current name has ended normally
PassEnded == pc = "loop" /\ log # <<>>

\* C1: after a complete run every query name (distinct, trimmed, non-empty)
\* has exactly one metadata row, and every status is one of the four values.
C1_OneRowPerQueryName ==
  pc = "done" =>
    /\ \A q \in QueryNames : Cardinality(RowsOf(q)) = 1
    /\ \A j \in DOMAIN meta_records : meta_records[j].status \in Statuses

C2_Inv ==
  \A t \in DOMAIN target_records :
    \E j \in DOMAIN meta_records :
      /\ meta_records[j].query_name = target_records[t].query_name
      /\ meta_records[j].status = "ok"
      /\ meta_records[j].chembl_id = target_records[t].molecule_chembl_id

C2_Step ==
  target_records' # target_records =>
    /\ meta_records' = meta_records
    /\ meta_records # <<>>
    /\ Last(meta_records).status = "ok"
    /\ Last(meta_records).query_name = name
    /\ Len(target_records') > Len(target_records)
    /\ SubSeq(target_records', 1, Len(target_records)) = target_records
    /\ \A t \in (Len(target_records) + 1)..Len(target_records') :
         /\ target_records'[t].query_name = Last(meta_records).query_name
         /\ target_records'[t].molecule_chembl_id = Last(meta_records).chembl_id

\* C2: in every state each target row has a metadata row with its query_name,
\* status "ok" and its molecule id, and target rows are only ever appended in
\* the pass of a name whose metadata row, already written, has status "ok".
C2_TargetsOnlyForOk == [](C2_Inv) /\ [][C2_Step]_vars

C2_Witness ==
  /\ target_records # <<>>
  /\ \E j \in DOMAIN meta_records : meta_records[j].status # "ok"

\* C3: once the exact lookup of a name has run, the search has been invoked
\* at most once and after it, never when the lookup returned a record (the
\* candidate list is then that one record), and always, before anything
\* else, when the lookup returned nothing or failed.
C3_ExactShortCircuits ==
  log # <<>> =>
    /\ log[1] = "exact"
    /\ Calls(log, "exact") = 1
    /\ Calls(log, "search") <= 1
    /\ (resp.kind = "rows" /\ Last(log) = "sleep" /\ Len(log) = 2 /\ resp.cands # <<>>)
         => (candidate = <<resp.cands[1]>> /\ pc # "search")
    /\ candidate # <<>> => (Calls(log, "search") = 0 /\ candidates = candidate)
    /\ (candidate = <<>> /\ pc # "search") => (Len(log) >= 3 /\ log[3] = "search")
    /\ pc = "search" => (candidate = <<>> /\ Len(log) = 2)

C3_Witness ==
  /\ candidate # <<>>
  /\ pc = "loop"
  /\ Calls(log, "mech") = 1

\* the fields the structure fetch read, from the response alone
C4_Type == IF resp.kind = "rows" THEN resp.full[1].molecule_type ELSE None
C4_Smiles ==
  IF resp.kind = "rows" /\ resp.full[1].molecule_structures.present
  THEN resp.full[1].molecule_structures.canonical_smiles ELSE None
C4_Fetched ==
  /\ pc \in {"loop", "mech"}
  /\ Len(log) >= 2
  /\ log[Len(log) - 1] = "struct"
C4_Row(ok) ==
  LET m == Last(meta_records)
  IN /\ m.query_name = name
     /\ m.chembl_id = chembl_id
     /\ chembl_id \notin {None, <<>>}
     /\ m.status = IF ok THEN "ok" ELSE "non_small_or_no_smiles"
     /\ m.smiles = C4_Smiles
     /\ m.molecule_type = C4_Type
     /\ resp.kind = "raise" =>
          (m.smiles = None /\ m.inchi_key = None /\ m.molecule_type = None /\ ~ok)

\* C4 as stated: "ok" iff the type is "small molecule" in any case and the
\* SMILES is not None, the empty string included.
C4_OkIffSmilesNotNone ==
  C4_Fetched => C4_Row(Lower(C4_Type) = SmallMolecule /\ C4_Smiles # None)

\* C4 as amended: "ok" iff the type is "small molecule" in any case and the
\* SMILES is neither None nor the empty string; otherwise, a failed fetch
\* with all-null fields included, "non_small_or_no_smiles"; the row carries
\* the resolved chembl_id.
C4_OkIffSmilesNonEmpty ==
  C4_Fetched =>
    C4_Row(Lower(C4_Type) = SmallMolecule /\ C4_Smiles # None /\ C4_Smiles # <<>>)

C4_Witness ==
  /\ C4_Fetched
  /\ Last(meta_records).status = "ok"
  /\ C4_Type = CapSmallMolecule

\* the strings of a full record: preferred name and one string per synonym
C5_Strings(full) ==
  {OrEmpty(full.pref_name)} \cup
  (IF full.has_syns
   THEN {SynText(full.molecule_synonyms[j]) : j \in DOMAIN full.molecule_synonyms}
   ELSE {})
C5_Accepts(full, q) ==
  \E str \in C5_Strings(full) :
    /\ str # <<>>
    /\ Normalize(str) \in {Normalize(q), SplitFirst(Normalize(q))}

\* C5: the deep-verification loop fetches only the top DEEP_CHECK ranked
\* candidates, in order, stops at the first whose record's names (preferred
\* name or a synonym, normalized) hold the normalized query or its first
\* token and returns that candidate's id; if none is accepted, failed
\* fetches included, it returns the id of the top-ranked candidate.
C5_DeepVerification ==
  (pc \in {"deep", "chosen"} /\ fetched # <<>>) =>
    /\ ranked = Ranked(candidates, name)
    /\ Len(fetched) <= DEEP_CHECK
    /\ Len(fetched) <= Len(ranked)
    /\ Calls(log, "get") = Len(fetched)
    /\ (Last(fetched) = "return") <=> (resp.kind = "rows" /\ C5_Accepts(resp.full[1], name))
    /\ \A j \in 1..(Len(fetched) - 1) : fetched[j] \in {"pause", "continue"}
    /\ pc = "deep" => (k = Len(fetched) + 1 /\ Last(fetched) \in {"pause", "continue"})
    /\ pc = "chosen" =>
         IF Last(fetched) = "return"
         THEN chembl_id = ranked[Len(fetched)].molecule_chembl_id
         ELSE /\ Len(fetched) = Min(DEEP_CHECK, Len(ranked))
              /\ chembl_id = ranked[1].molecule_chembl_id

\* a second candidate is accepted through a synonym, its preferred name
\* differing from the query
C5_Witness ==
  /\ pc = "chosen"
  /\ Len(fetched) = 2
  /\ Last(fetched) = "return"
  /\ resp.full[1] = fSyn
  /\ ranked[2] # ranked[1]

C6_Contained(c, q) ==
  LET pref == Normalize(OrEmpty(c.pref_name))
  IN Contains(Normalize(q), pref) \/ Contains(pref, Normalize(q))
\* max_phase as a number times 5; whole is FALSE for None, for a fraction
\* and for a string that is no int literal
C6_Whole(mp) ==
  \/ mp.kind \in {"int", "intstr"}
  \/ mp.kind = "float" /\ mp.v % 2 = 0
C6_Truncated(mp) ==
  CASE mp.kind \in {"int", "intstr"} -> mp.v
    [] mp.kind = "float" -> IF mp.v >= 0 THEN mp.v \div 2 ELSE -((-mp.v) \div 2)
    [] OTHER -> 0
C6_Score(c, q, phase) ==
  (IF Normalize(OrEmpty(c.pref_name)) = Normalize(q) THEN 200 ELSE 0)
  + (IF C6_Contained(c, q) THEN 20 ELSE 0) + 5 * phase
C6_ScoreStated(c, q) ==
  C6_Score(c, q, IF C6_Whole(c.max_phase) THEN C6_Truncated(c.max_phase) ELSE 0)
C6_ScoreAmended(c, q) == C6_Score(c, q, C6_Truncated(c.max_phase))
\* the place of candidates[a] in a stable descending order by sc
C6_Place(a, sc(_, _)) ==
  1 + Cardinality({b \in DOMAIN candidates :
                     \/ sc(candidates[b], name) > sc(candidates[a], name)
                     \/ sc(candidates[b], name) = sc(candidates[a], name) /\ b < a})
C6_Ordered(sc(_, _)) ==
  /\ Len(ranked) = Len(candidates)
  /\ \A a \in DOMAIN candidates : ranked[C6_Place(a, sc)] = candidates[a]

\* C6 as stated: the score is 200 for an equal normalized name, plus 20 for
\* containment, plus 5 times max_phase, 0 when max_phase is absent or not an
\* integer; the order is descending and stable.
C6_RankedByStatedScore == pc = "ranked" => C6_Ordered(C6_ScoreStated)

\* C6 as amended: as stated, except that a fractional max_phase counts 5
\* times its integer part.
C6_RankedByTruncatedScore == pc = "ranked" => C6_Ordered(C6_ScoreAmended)

\* two distinct candidates of equal score keep their order, behind a later
\* candidate of higher score
C6_Witness ==
  /\ pc = "ranked"
  /\ Len(candidates) = 3
  /\ candidates[1] # candidates[2]
  /\ C6_ScoreAmended(candidates[1], name) = C6_ScoreAmended(candidates[2], name)
  /\ C6_ScoreAmended(candidates[3], name) > C6_ScoreAmended(candidates[1], name)
  /\ ranked = <<candidates[3], candidates[1], candidates[2]>>

C7_NullRow(status) ==
  /\ meta_records # <<>>
  /\ Last(meta_records) = MetaRow(name, None, None, None, None, status)
  /\ Calls(log, "struct") = 0
  /\ Calls(log, "mech") = 0

\* C7: a pass in which the exact lookup and the search gave no candidate
\* ends with a "no_hit" row; a pass with candidates in which
\* choose_best_candidate gave None or the empty id ends with a
\* "no_candidate" row; both rows have null chembl_id, smiles, inchi_key and
\* molecule_type, and neither the structure fetch nor the mechanism fetch
\* was invoked; no other pass ends with either status.
C7_NoHitNoCandidate ==
  PassEnded =>
    /\ (candidate = <<>> /\ limited_text_search(resp) = <<>> /\ Last(log) = "search")
         => (candidates = <<>> /\ C7_NullRow("no_hit") /\ Calls(log, "get") = 0)
    /\ (candidates # <<>> /\ chembl_id \in {None, <<>>}) => C7_NullRow("no_candidate")
    /\ Last(meta_records).status = "no_hit" => candidates = <<>>
    /\ Last(meta_records).status = "no_candidate"
         => (candidates # <<>> /\ chembl_id \in {None, <<>>})

C7_Witness ==
  /\ PassEnded
  /\ Len(meta_records) = 2
  /\ meta_records[1].status = "no_hit"
  /\ meta_records[2].status = "no_candidate"
  /\ chembl_id = <<>>

\* C8: no failure or absent result of an external call aborts the run.
C8_NoCallAbortsRun == pc # "aborted"

\* C9: the mechanism fetch runs only for a name whose status is "ok", and a
\* mechanism query that fails at any point adds no target row.
C9_FailedMechanismYieldsNothing ==
  [][(pc = "mech" /\ pc' = "loop") =>
       /\ Last(meta_records).status = "ok"
       /\ (resp'.kind = "raise" \/ resp'.failAfter >= 0) => target_records' = target_records]_vars

\* C10: between any two consecutive external calls a pause occurs.
C10_PauseBetweenCalls ==
  LET l == <<prev>> \o log
  IN \A j \in 1..(Len(l) - 1) : ~(IsCall(l[j]) /\ IsCall(l[j + 1]))

====
